---- MODULE Spec2Model ----
(***************************************************************************)
(* Model of src/git_manager.py: the Repository Operation Executor          *)
(* (GitManager), the License Generator (LicenseManager) and the            *)
(* Application Facade (RepoManagerApp).                                    *)
(*                                                                         *)
(* Paths are sequences of components (pathlib's parts); an absolute path   *)
(* starts with the component "/".  Raw text the program scans character by *)
(* character (the branch listing) is a sequence of one-character strings;  *)
(* a template body is a sequence of chunks, each of them "{", "}" or a     *)
(* brace-free string.  The outcome of a call is a record: the exception    *)
(* class that escaped it ("None" for a normal return), the pieces of its   *)
(* message, the child processes it ran, the directories it asked mkdir to  *)
(* make and the values it returned.                                        *)
(***************************************************************************)
EXTENDS Integers, Sequences, FiniteSets, TLC

VARIABLES
    dirs,             \* the repository directories that exist on disk
    marker,           \* the directories that hold the repository marker (.git)
    files,            \* files[d]: the files under directory d (relative parts)
    index,            \* index[d]: the paths the tool has staged in d
    license_file,     \* license_file[d]: content of d/LICENSE, NoFile if absent
    licenses_json,    \* the external definition file licenses.json
    git_manager,      \* RepoManagerApp.git_manager
    license_manager,  \* RepoManagerApp.license_manager
    result            \* the outcome of the last call

vars == <<dirs, marker, files, index, license_file, licenses_json,
          git_manager, license_manager, result>>

----------------------------------------------------------------------------
(* Bounds *)

\* longest file list handed to add_files
MaxFiles == 2
\* most branches in one listing
MaxBranches == 3

----------------------------------------------------------------------------
(* Paths and the disk *)

None == "None"
NoFile == <<"<absent>">>

\* the process's working directory, which Path.absolute() prepends
Cwd == <<"/", "w">>

IsAbsolute(path) == Len(path) > 0 /\ path[1] = "/"

\* Path(repo_path).absolute()
absolute(path) == IF IsAbsolute(path) THEN path ELSE Cwd \o path

\* the repository paths a caller names
RepoInputs == {<<"r1">>, <<"r2">>}
Repos == {absolute(p) : p \in RepoInputs}

\* a / b of pathlib: an absolute right operand replaces the left one, and
\* "." components vanish
RECURSIVE DropDots(_)
DropDots(parts) ==
    IF parts = <<>> THEN <<>>
    ELSE IF Head(parts) = "." THEN DropDots(Tail(parts))
    ELSE <<Head(parts)>> \o DropDots(Tail(parts))

JoinPath(base, path) ==
    IF IsAbsolute(path) THEN DropDots(path) ELSE base \o DropDots(path)

IsPrefix(s, t) == Len(s) <= Len(t) /\ SubSeq(t, 1, Len(s)) = s

\* str(path): the components joined by "/"
RECURSIVE JoinWith(_, _)
JoinWith(parts, sep) ==
    IF parts = <<>> THEN ""
    ELSE IF Len(parts) = 1 THEN parts[1]
    ELSE parts[1] \o sep \o JoinWith(Tail(parts), sep)

PathStr(path) ==
    IF path = <<>> THEN "."
    ELSE IF IsAbsolute(path) THEN "/" \o JoinWith(Tail(path), "/")
    ELSE JoinWith(path, "/")

\* files that exist outside every repository
OutsideFiles == {<<"/", "etc", "hosts">>}

\* Path.exists() of an absolute path
Exists(path) ==
    \/ path \in dirs
    \/ path \in OutsideFiles
    \/ \E d \in dirs : \E f \in files[d] : path = d \o f
    \/ \E d \in dirs : license_file[d] # NoFile /\ path = d \o <<"LICENSE">>
    \/ \E d \in marker : path = d \o <<".git">>

----------------------------------------------------------------------------
(* Outcomes of calls *)

Returned(calls, mkdirs, value) ==
    [exc |-> None, msg |-> <<>>, calls |-> calls, mkdirs |-> mkdirs,
     value |-> value]

Raised(exc, msg, calls, mkdirs) ==
    [exc |-> exc, msg |-> msg, calls |-> calls, mkdirs |-> mkdirs,
     value |-> <<>>]

\* the exception classes of the program (RepoManagerError and below)
TypedErrors == {"RepoManagerError", "GitOperationError", "LicenseError",
                "InvalidLicenseError", "LicenseGenerationError", "ConfigError"}

----------------------------------------------------------------------------
(* The external tool *)

\* exit statuses and error texts of a child process
ExitCodes == {0, 1}
Stderrs == {"", "fatal: refused"}

\* A child process as the environment decides it: whether it can be spawned
\* at all, its exit status and what it prints.
Process(spawned, returncode, stdout, stderr) ==
    [spawned |-> spawned, returncode |-> returncode, stdout |-> stdout,
     stderr |-> stderr]


\* what a child process prints on its standard output, as characters
NoOutput == <<>>
StatusOutputs == {<<"o", "k", "\n">>}

\* The child processes the environment can produce for a command run in
\* directory cwd: none can be spawned in a directory that does not exist,
\* and only "init" can exit zero where there is no repository yet.
ChildProcesses(cwd, args, stdouts) ==
    IF cwd \notin dirs /\ args[1] # "init"
    THEN {Process(FALSE, 1, NoOutput, "")}
    ELSE {Process(TRUE, rc, out, err) :
            rc \in {c \in ExitCodes : c # 0}, out \in {NoOutput}, err \in Stderrs}
         \cup (IF args[1] = "init" \/ cwd \in marker
               THEN {Process(TRUE, 0, out, "") : out \in stdouts}
               ELSE {})

----------------------------------------------------------------------------
(* GitManager *)

\* subprocess.run(["git", "--version"], check=True): how the version query
\* can end
Probes == {"exit0", "nonzero", "not_found"}

VersionQuery == <<"git", "--version">>

\* one child process that ran: its argument vector, its exit status and
\* what it wrote on its standard error
Ran(argv, returncode, stderr) ==
    [argv |-> argv, returncode |-> returncode, stderr |-> stderr]

\* GitManager._validate_git_installation
_validate_git_installation(probe) ==
    IF probe = "nonzero"
    THEN Raised("GitOperationError", <<"Git is not installed or not in PATH">>,
                <<Ran(VersionQuery, 1, "")>>, <<>>)
    ELSE IF probe = "not_found"
    THEN Raised("FileNotFoundError", <<"No such file or directory: ", "git">>,
                <<>>, <<>>)
    ELSE Returned(<<Ran(VersionQuery, 0, "")>>, <<>>, <<>>)

\* GitManager.__init__: the value is the instance
GitManager(repo_path, probe) ==
    LET v == _validate_git_installation(probe)
    IN  IF v.exc # None THEN v
        ELSE Returned(v.calls, <<>>, <<[repo_path |-> absolute(repo_path)]>>)

\* _run_git_command as with check=False: any exit status is a normal return
_run_git_command_unchecked(repo_path, args, proc) ==
    IF ~proc.spawned
    THEN Raised("FileNotFoundError",
                <<"No such file or directory: ", PathStr(repo_path)>>, <<>>, <<>>)
    ELSE Returned(<<Ran(<<"git">> \o args, proc.returncode, proc.stderr)>>,
                  <<>>, proc.stdout)

\* GitManager._run_git_command with check=True
_run_git_command(repo_path, args, proc) ==
    IF ~proc.spawned
    THEN Raised("FileNotFoundError",
                <<"No such file or directory: ", PathStr(repo_path)>>, <<>>, <<>>)
    ELSE IF proc.returncode # 0
    THEN Raised("GitOperationError",
                <<"Git command failed: ", JoinWith(args, " "), "\n", proc.stderr>>,
                <<Ran(<<"git">> \o args, proc.returncode, proc.stderr)>>, <<>>)
    ELSE Returned(<<Ran(<<"git">> \o args, 0, proc.stderr)>>, <<>>, proc.stdout)

OSErrors == {"OSError", "FileNotFoundError", "PermissionError"}

\* init_repo without its check of the repository marker
init_repo_unguarded(repo_path, mkdir_ok, proc) ==
    IF ~mkdir_ok
    THEN Raised("GitOperationError",
                <<"Failed to create repository: ", "OSError">>, <<>>, <<repo_path>>)
    ELSE [_run_git_command(repo_path, <<"init">>, proc)
            EXCEPT !.mkdirs = <<repo_path>>]

\* GitManager.init_repo; mkdir_ok: whether Path.mkdir succeeds
init_repo(repo_path, mkdir_ok, proc) ==
    IF Exists(repo_path \o <<".git">>)
    THEN Raised("GitOperationError",
                <<"Repository already exists at ", PathStr(repo_path)>>, <<>>, <<>>)
    ELSE IF ~mkdir_ok
    THEN Raised("GitOperationError",
                <<"Failed to create repository: ", "OSError">>, <<>>, <<repo_path>>)
    ELSE LET r == _run_git_command(repo_path, <<"init">>, proc)
         IN  IF r.exc \in OSErrors
             THEN Raised("GitOperationError",
                         <<"Failed to create repository: ", r.exc>>,
                         r.calls, <<repo_path>>)
             ELSE [r EXCEPT !.mkdirs = <<repo_path>>]

\* the loop of add_files collecting the paths in front (insert(0, ...))
\* instead of at the end
RECURSIVE add_files_loop_reversed(_, _, _, _)
add_files_loop_reversed(repo_path, file_paths, i, abs_paths) ==
    IF i > Len(file_paths) THEN Returned(<<>>, <<>>, abs_paths)
    ELSE LET abs_path == JoinPath(repo_path, file_paths[i])
         IN  IF ~Exists(abs_path)
             THEN Raised("GitOperationError",
                         <<"File not found: ", PathStr(abs_path)>>, <<>>, <<>>)
             ELSE IF ~IsPrefix(repo_path, abs_path)
             THEN Raised("ValueError",
                         <<PathStr(abs_path), " is not in the subpath of ",
                           PathStr(repo_path)>>, <<>>, <<>>)
             ELSE add_files_loop_reversed(repo_path, file_paths, i + 1,
                     <<PathStr(SubSeq(abs_path, Len(repo_path) + 1,
                                      Len(abs_path)))>> \o abs_paths)

\* the loop of GitManager.add_files over file_paths[i..]: the exception of
\* the first path that fails, or the relative paths collected
RECURSIVE add_files_loop(_, _, _, _)
add_files_loop(repo_path, file_paths, i, abs_paths) ==
    IF i > Len(file_paths) THEN Returned(<<>>, <<>>, abs_paths)
    ELSE LET abs_path == JoinPath(repo_path, file_paths[i])
         IN  IF ~Exists(abs_path)
             THEN Raised("GitOperationError",
                         <<"File not found: ", PathStr(abs_path)>>, <<>>, <<>>)
             ELSE IF ~IsPrefix(repo_path, abs_path)
             THEN Raised("ValueError",
                         <<PathStr(abs_path), " is not in the subpath of ",
                           PathStr(repo_path)>>, <<>>, <<>>)
             ELSE add_files_loop(repo_path, file_paths, i + 1,
                     Append(abs_paths,
                            PathStr(SubSeq(abs_path, Len(repo_path) + 1,
                                           Len(abs_path)))))

\* GitManager.add_files
add_files(repo_path, file_paths, proc) ==
    IF file_paths = <<>>
    THEN Raised("GitOperationError", <<"No files specified to add">>, <<>>, <<>>)
    ELSE LET l == add_files_loop(repo_path, file_paths, 1, <<>>)
         IN  IF l.exc # None THEN l
             ELSE _run_git_command(repo_path, <<"add">> \o l.value, proc)

\* commit without its check of the message
commit_unchecked(repo_path, message, proc) ==
    _run_git_command(repo_path, <<"commit", "-m", message>>, proc)

\* GitManager.commit
commit(repo_path, message, proc) ==
    IF message = ""
    THEN Raised("GitOperationError", <<"Commit message cannot be empty">>,
                <<>>, <<>>)
    ELSE _run_git_command(repo_path, <<"commit", "-m", message>>, proc)

\* GitManager.push
push(repo_path, remote, branch, proc) ==
    _run_git_command(repo_path, <<"push", "-u", remote, branch>>, proc)

\* GitManager.create_branch
create_branch(repo_path, branch_name, proc) ==
    IF branch_name = ""
    THEN Raised("GitOperationError", <<"Branch name cannot be empty">>,
                <<>>, <<>>)
    ELSE _run_git_command(repo_path, <<"checkout", "-b", branch_name>>, proc)

\* GitManager.merge
merge(repo_path, branch_name, proc) ==
    _run_git_command(repo_path, <<"merge", branch_name>>, proc)

\* GitManager.pull
pull(repo_path, remote, branch, proc) ==
    _run_git_command(repo_path, <<"pull", remote, branch>>, proc)

\* GitManager.checkout
checkout(repo_path, branch_name, proc) ==
    _run_git_command(repo_path, <<"checkout", branch_name>>, proc)

\* GitManager.status
status(repo_path, proc) ==
    _run_git_command(repo_path, <<"status">>, proc)

\* GitManager.is_repository
is_repository(repo_path) == Exists(repo_path \o <<".git">>)


----------------------------------------------------------------------------
(* GitManager.list_branches: text is a sequence of characters *)

Whitespace == {" ", "\t", "\n", "\r"}

\* str.split(sep): the pieces between the separators, empty ones included
RECURSIVE SplitFrom(_, _, _)
SplitFrom(text, sep, piece) ==
    IF text = <<>> THEN <<piece>>
    ELSE IF Head(text) = sep
    THEN <<piece>> \o SplitFrom(Tail(text), sep, <<>>)
    ELSE SplitFrom(Tail(text), sep, Append(piece, Head(text)))

Split(text, sep) == SplitFrom(text, sep, <<>>)

\* str.strip(): without the whitespace at either end
RECURSIVE LStrip(_)
LStrip(text) ==
    IF text # <<>> /\ Head(text) \in Whitespace THEN LStrip(Tail(text)) ELSE text

RECURSIVE RStrip(_)
RStrip(text) ==
    IF text # <<>> /\ text[Len(text)] \in Whitespace
    THEN RStrip(SubSeq(text, 1, Len(text) - 1))
    ELSE text

Strip(text) == RStrip(LStrip(text))

\* str.startswith of a one-character prefix
StartsWith(text, c) == text # <<>> /\ text[1] = c

\* text[n:]
DropFirst(text, n) == SubSeq(text, n + 1, Len(text))

\* the parsing of list_branches putting the current branch last
\* (append instead of insert(0, ...))
parse_branches_current_last(stdout) ==
    LET NonBlank(b) == Strip(b) # <<>>
        IsCurrent(b) == StartsWith(b, "*")
        NotCurrent(b) == ~StartsWith(b, "*")
        lines == SelectSeq(Split(stdout, "\n"), NonBlank)
        branches == [i \in 1..Len(lines) |-> Strip(lines[i])]
        current == SelectSeq(branches, IsCurrent)
    IN  IF current # <<>>
        THEN SelectSeq(branches, NotCurrent) \o <<DropFirst(current[1], 2)>>
        ELSE branches

\* the parsing of GitManager.list_branches, from the tool's standard output
parse_branches(stdout) ==
    LET NonBlank(b) == Strip(b) # <<>>
        IsCurrent(b) == StartsWith(b, "*")
        NotCurrent(b) == ~StartsWith(b, "*")
        lines == SelectSeq(Split(stdout, "\n"), NonBlank)
        branches == [i \in 1..Len(lines) |-> Strip(lines[i])]
        current == SelectSeq(branches, IsCurrent)
    IN  IF current # <<>>
        THEN <<DropFirst(current[1], 2)>> \o SelectSeq(branches, NotCurrent)
        ELSE branches

\* GitManager.list_branches
list_branches(repo_path, proc) ==
    LET r == _run_git_command(repo_path, <<"branch">>, proc)
    IN  IF r.exc # None THEN r
        ELSE [r EXCEPT !.value = parse_branches(r.value)]


----------------------------------------------------------------------------
(* LicenseManager: the template store *)

\* default_licenses["MIT"]["text"]
MIT_text ==
    <<"MIT License\n\nCopyright (c) ",
      "{",
      "year",
      "}",
      " ",
      "{",
      "name",
      "}",
      "\n\nPermission is hereby granted, free of charge, to any person obtaining a copy of this software and associated documentation files (the \"Software\"), to deal in the Software without restriction, including without limitation the rights to use, copy, modify, merge, publish, distribute, sublicense, and/or sell copies of the Software, and to permit persons to whom the Software is furnished to do so, subject to the following conditions:\n\nThe above copyright notice and this permission notice shall be included in all copies or substantial portions of the Software.\n\nTHE SOFTWARE IS PROVIDED \"AS IS\", WITHOUT WARRANTY OF ANY KIND, EXPRESS OR IMPLIED, INCLUDING BUT NOT LIMITED TO THE WARRANTIES OF MERCHANTABILITY, FITNESS FOR A PARTICULAR PURPOSE AND NONINFRINGEMENT. IN NO EVENT SHALL THE AUTHORS OR COPYRIGHT HOLDERS BE LIABLE FOR ANY CLAIM, DAMAGES OR OTHER LIABILITY, WHETHER IN AN ACTION OF CONTRACT, TORT OR OTHERWISE, ARISING FROM, OUT OF OR IN CONNECTION WITH THE SOFTWARE OR THE USE OR OTHER DEALINGS IN THE SOFTWARE.">>

\* default_licenses["Apache-2.0"]["text"]
Apache_2_0_text ==
    <<"Apache License 2.0\n\nCopyright (c) ",
      "{",
      "year",
      "}",
      " ",
      "{",
      "name",
      "}",
      "\n\nLicensed under the Apache License, Version 2.0 (the \"License\"); you may not use this file except in compliance with the License. You may obtain a copy of the License at:\n\n    http://www.apache.org/licenses/LICENSE-2.0\n\nUnless required by applicable law or agreed to in writing, software distributed under the License is distributed on an \"AS IS\" BASIS, WITHOUT WARRANTIES OR CONDITIONS OF ANY KIND, either express or implied. See the License for the specific language governing permissions and limitations under the License.">>

\* default_licenses["BSD-2-Clause"]["text"]
BSD_2_Clause_text ==
    <<"BSD 2-Clause License\n\nCopyright (c) ",
      "{",
      "year",
      "}",
      " ",
      "{",
      "name",
      "}",
      "\n\nRedistribution and use in source and binary forms, with or without modification, are permitted provided that the following conditions are met:\n\n1. Redistributions of source code must retain the above copyright notice, this list of conditions and the following disclaimer.\n\n2. Redistributions in binary form must reproduce the above copyright notice, this list of conditions and the following disclaimer in the documentation and/or other materials provided with the distribution.\n\nTHIS SOFTWARE IS PROVIDED BY THE COPYRIGHT HOLDERS AND CONTRIBUTORS \"AS IS\" AND ANY EXPRESS OR IMPLIED WARRANTIES, INCLUDING, BUT NOT LIMITED TO, THE IMPLIED WARRANTIES OF MERCHANTABILITY AND FITNESS FOR A PARTICULAR PURPOSE ARE DISCLAIMED. IN NO EVENT SHALL THE COPYRIGHT HOLDER OR CONTRIBUTORS BE LIABLE FOR ANY DIRECT, INDIRECT, INCIDENTAL, SPECIAL, EXEMPLARY, OR CONSEQUENTIAL DAMAGES (INCLUDING, BUT NOT LIMITED TO, PROCUREMENT OF SUBSTITUTE GOODS OR SERVICES; LOSS OF USE, DATA, OR PROFITS; OR BUSINESS INTERRUPTION) HOWEVER CAUSED AND ON ANY THEORY OF LIABILITY, WHETHER IN CONTRACT, STRICT LIABILITY, OR TORT (INCLUDING NEGLIGENCE OR OTHERWISE) ARISING IN ANY WAY OUT OF THE USE OF THIS SOFTWARE, EVEN IF ADVISED OF THE POSSIBILITY OF SUCH DAMAGE.">>

\* default_licenses["BSD-3-Clause"]["text"]
BSD_3_Clause_text ==
    <<"BSD 3-Clause License\n\nCopyright (c) ",
      "{",
      "year",
      "}",
      " ",
      "{",
      "name",
      "}",
      "\n\nRedistribution and use in source and binary forms, with or without modification, are permitted provided that the following conditions are met:\n\n1. Redistributions of source code must retain the above copyright notice, this list of conditions and the following disclaimer.\n\n2. Redistributions in binary form must reproduce the above copyright notice, this list of conditions and the following disclaimer in the documentation and/or other materials provided with the distribution.\n\n3. Neither the name of ",
      "{",
      "name",
      "}",
      " nor the names of its contributors may be used to endorse or promote products derived from this software without specific prior written permission.\n\nTHIS SOFTWARE IS PROVIDED BY THE COPYRIGHT HOLDERS AND CONTRIBUTORS \"AS IS\" AND ANY EXPRESS OR IMPLIED WARRANTIES, INCLUDING, BUT NOT LIMITED TO, THE IMPLIED WARRANTIES OF MERCHANTABILITY AND FITNESS FOR A PARTICULAR PURPOSE ARE DISCLAIMED. IN NO EVENT SHALL THE COPYRIGHT HOLDER OR CONTRIBUTORS BE LIABLE FOR ANY DIRECT, INDIRECT, INCIDENTAL, SPECIAL, EXEMPLARY, OR CONSEQUENTIAL DAMAGES (INCLUDING, BUT NOT LIMITED TO, PROCUREMENT OF SUBSTITUTE GOODS OR SERVICES; LOSS OF USE, DATA, OR PROFITS; OR BUSINESS INTERRUPTION) HOWEVER CAUSED AND ON ANY THEORY OF LIABILITY, WHETHER IN CONTRACT, STRICT LIABILITY, OR TORT (INCLUDING NEGLIGENCE OR OTHERWISE) ARISING IN ANY WAY OUT OF THE USE OF THIS SOFTWARE, EVEN IF ADVISED OF THE POSSIBILITY OF SUCH DAMAGE.">>

\* default_licenses["Apache-1.1"]["text"]
Apache_1_1_text ==
    <<"Apache License 1.1\n\nCopyright (c) ",
      "{",
      "year",
      "}",
      " ",
      "{",
      "name",
      "}",
      "\n\nThis product includes software developed by The Apache Group (http://www.apache.org/).\n\nRedistribution and use in source and binary forms, with or without modification, are permitted provided that the following conditions are met:\n\n1. Redistributions of source code must retain the above copyright notice, this list of conditions and the following disclaimer.\n\n2. Redistributions in binary form must reproduce the above copyright notice, this list of conditions and the following disclaimer in the documentation and/or other materials provided with the distribution.\n\n3. The end-user documentation included with the redistribution, if any, must include the following acknowledgment: \"This product includes software developed by the Apache Group (http://www.apache.org/).\"\n\n4. The names \"Apache Server\" and \"Apache Group\" must not be used to endorse or promote products derived from this software without prior written permission.\n\nTHIS SOFTWARE IS PROVIDED \"AS IS\" AND ANY EXPRESSED OR IMPLIED WARRANTIES, INCLUDING, BUT NOT LIMITED TO, THE IMPLIED WARRANTIES OF MERCHANTABILITY AND FITNESS FOR A PARTICULAR PURPOSE ARE DISCLAIMED. IN NO EVENT SHALL THE APACHE GROUP OR ITS CONTRIBUTORS BE LIABLE FOR ANY DIRECT, INDIRECT, INCIDENTAL, SPECIAL, EXEMPLARY, OR CONSEQUENTIAL DAMAGES (INCLUDING, BUT NOT LIMITED TO, PROCUREMENT OF SUBSTITUTE GOODS OR SERVICES; LOSS OF USE, DATA, OR PROFITS; OR BUSINESS INTERRUPTION) HOWEVER CAUSED AND ON ANY THEORY OF LIABILITY, WHETHER IN CONTRACT, STRICT LIABILITY, OR TORT (INCLUDING NEGLIGENCE OR OTHERWISE) ARISING IN ANY WAY OUT OF THE USE OF THIS SOFTWARE, EVEN IF ADVISED OF THE POSSIBILITY OF SUCH DAMAGE.">>

\* default_licenses["BSD-4-Clause"]["text"]
BSD_4_Clause_text ==
    <<"BSD 4-Clause License\n\nCopyright (c) ",
      "{",
      "year",
      "}",
      " ",
      "{",
      "name",
      "}",
      "\n\nRedistribution and use in source and binary forms, with or without modification, are permitted provided that the following conditions are met:\n\n1. Redistributions of source code must retain the above copyright notice, this list of conditions and the following disclaimer.\n\n2. Redistributions in binary form must reproduce the above copyright notice, this list of conditions and the following disclaimer in the documentation and/or other materials provided with the distribution.\n\n3. All advertising materials mentioning features or use of this software must display the following acknowledgment: This product includes software developed by ",
      "{",
      "name",
      "}",
      ".\n\n4. Neither the name of ",
      "{",
      "name",
      "}",
      " nor the names of its contributors may be used to endorse or promote products derived from this software without specific prior written permission.\n\nTHIS SOFTWARE IS PROVIDED BY THE COPYRIGHT HOLDERS AND CONTRIBUTORS \"AS IS\" AND ANY EXPRESS OR IMPLIED WARRANTIES, INCLUDING, BUT NOT LIMITED TO, THE IMPLIED WARRANTIES OF MERCHANTABILITY AND FITNESS FOR A PARTICULAR PURPOSE ARE DISCLAIMED. IN NO EVENT SHALL THE COPYRIGHT HOLDER OR CONTRIBUTORS BE LIABLE FOR ANY DIRECT, INDIRECT, INCIDENTAL, SPECIAL, EXEMPLARY, OR CONSEQUENTIAL DAMAGES (INCLUDING, BUT NOT LIMITED TO, PROCUREMENT OF SUBSTITUTE GOODS OR SERVICES; LOSS OF USE, DATA, OR PROFITS; OR BUSINESS INTERRUPTION) HOWEVER CAUSED AND ON ANY THEORY OF LIABILITY, WHETHER IN CONTRACT, STRICT LIABILITY, OR TORT (INCLUDING NEGLIGENCE OR OTHERWISE) ARISING IN ANY WAY OUT OF THE USE OF THIS SOFTWARE, EVEN IF ADVISED OF THE POSSIBILITY OF SUCH DAMAGE.">>

\* default_licenses, in the order of the dict
default_licenses ==
    <<[key |-> "MIT", data |-> [name |-> "MIT", text |-> MIT_text, requires_name |-> TRUE]],
      [key |-> "Apache-2.0", data |-> [name |-> "Apache-2.0", text |-> Apache_2_0_text, requires_name |-> TRUE]],
      [key |-> "BSD-2-Clause", data |-> [name |-> "BSD-2-Clause", text |-> BSD_2_Clause_text, requires_name |-> TRUE]],
      [key |-> "BSD-3-Clause", data |-> [name |-> "BSD-3-Clause", text |-> BSD_3_Clause_text, requires_name |-> TRUE]],
      [key |-> "Apache-1.1", data |-> [name |-> "Apache-1.1", text |-> Apache_1_1_text, requires_name |-> TRUE]],
      [key |-> "BSD-4-Clause", data |-> [name |-> "BSD-4-Clause", text |-> BSD_4_Clause_text, requires_name |-> TRUE]]>>

\* a licenses.json that parses: identifier -> data, a data object holding
\* any of the keys name, text and requires_name
CustomJson ==
    <<[key |-> "Plain",
       data |-> [text |-> <<"Public domain.">>, requires_name |-> FALSE]],
      [key |-> "Optional",
       data |-> [name |-> "Optional",
                 text |-> <<"(c) ", "{", "year", "}", " ", "{", "name", "}">>,
                 requires_name |-> FALSE]],
      [key |-> "Owner",
       data |-> [text |-> <<"(c) ", "{", "year", "}", " ", "{", "owner", "}">>]],
      [key |-> "Positional",
       data |-> [text |-> <<"(c) ", "{", "0", "}">>, requires_name |-> FALSE]],
      [key |-> "Anonymous",
       data |-> [text |-> <<"(c) ", "{", "}">>, requires_name |-> TRUE]],
      [key |-> "Escaped",
       data |-> [text |-> <<"{", "{", "year", "}", "}", " ", "{", "name", "}">>,
                 requires_name |-> TRUE]],
      [key |-> "NoText", data |-> [requires_name |-> FALSE]]>>

\* the states of the file licenses.json
JsonFile(state, doc) == [state |-> state, doc |-> doc]
LicensesJsonStates ==
    {JsonFile("absent", <<>>), JsonFile("invalid", <<>>),
     JsonFile("valid", CustomJson)}

\* dict.get(k, default)
DictGet(data, k, default) == IF k \in DOMAIN data THEN data[k] ELSE default

LicenseInfo(name, text, requires_name) ==
    [name |-> name, text |-> text, requires_name |-> requires_name]

\* _load_license_templates with the decoding error swallowed: the built-in
\* table also stands in for a file that does not parse
_load_license_templates_lenient(json_file) ==
    IF json_file.state \in {"absent", "invalid"}
    THEN Returned(<<>>, <<>>,
            [i \in 1..Len(default_licenses) |->
                [key |-> default_licenses[i].key,
                 info |-> LicenseInfo(default_licenses[i].data.name,
                                      default_licenses[i].data.text,
                                      default_licenses[i].data.requires_name)]])
    ELSE Returned(<<>>, <<>>,
            [i \in 1..Len(json_file.doc) |->
                [key |-> json_file.doc[i].key,
                 info |-> LicenseInfo(
                     DictGet(json_file.doc[i].data, "name", json_file.doc[i].key),
                     DictGet(json_file.doc[i].data, "text", <<>>),
                     DictGet(json_file.doc[i].data, "requires_name", TRUE))]])

\* LicenseManager._load_license_templates: the store is the sequence of its
\* (identifier, LicenseInfo) items, in the order of the dict
_load_license_templates(json_file) ==
    IF json_file.state = "absent"
    THEN Returned(<<>>, <<>>,
            [i \in 1..Len(default_licenses) |->
                [key |-> default_licenses[i].key,
                 info |-> LicenseInfo(default_licenses[i].data.name,
                                      default_licenses[i].data.text,
                                      default_licenses[i].data.requires_name)]])
    ELSE IF json_file.state = "invalid"
    THEN Raised("LicenseError",
                <<"Error decoding JSON from licenses.json: ", "JSONDecodeError">>,
                <<>>, <<>>)
    ELSE Returned(<<>>, <<>>,
            [i \in 1..Len(json_file.doc) |->
                [key |-> json_file.doc[i].key,
                 info |-> LicenseInfo(
                     DictGet(json_file.doc[i].data, "name", json_file.doc[i].key),
                     DictGet(json_file.doc[i].data, "text", <<>>),
                     DictGet(json_file.doc[i].data, "requires_name", TRUE))]])

\* LicenseManager.__init__: the value is the instance
LicenseManager(repo_path, json_file) ==
    LET l == _load_license_templates(json_file)
    IN  IF l.exc # None THEN l
        ELSE Returned(<<>>, <<>>,
                <<[repo_path |-> absolute(repo_path), licenses |-> l.value]>>)

\* name in self.licenses
HasLicense(licenses, name) == \E i \in 1..Len(licenses) : licenses[i].key = name

\* self.licenses[name]
LicenseOf(licenses, name) ==
    licenses[CHOOSE i \in 1..Len(licenses) : licenses[i].key = name].info

\* LicenseManager.get_available_licenses
get_available_licenses(licenses) ==
    [i \in 1..Len(licenses) |-> licenses[i].key]


----------------------------------------------------------------------------
(* LicenseManager.generate_license *)

\* an author argument: None, or a string given as its chunks
NoAuthor == [given |-> FALSE, text |-> <<>>]
AuthorOf(text) == [given |-> TRUE, text |-> text]

\* truth value of the author argument ("not author" is its negation)
Truthy(author) == author.given /\ author.text # <<>>

Braces == {"{", "}"}
Digits == {"0", "1", "2", "3", "4", "5", "6", "7", "8", "9"}

\* str.format(year=year, name=name) from chunk i on, with no positional
\* arguments: "{{" and "}}" are literal braces, "{f}" is the field f, looked
\* up by index when f is empty or a number and by keyword otherwise.
\* Field names with attribute, index, conversion or format parts are not
\* modelled.
RECURSIVE FormatFrom(_, _, _, _, _)
FormatFrom(text, i, year, name, done) ==
    IF i > Len(text) THEN [exc |-> None, value |-> done, field |-> ""]
    ELSE IF text[i] = "{"
    THEN IF i + 1 <= Len(text) /\ text[i + 1] = "{"
         THEN FormatFrom(text, i + 2, year, name, Append(done, "{"))
         ELSE IF i + 1 <= Len(text) /\ text[i + 1] = "}"
         THEN [exc |-> "IndexError", value |-> <<>>, field |-> ""]
         ELSE IF i + 2 <= Len(text) /\ text[i + 2] = "}"
         THEN IF text[i + 1] = "year"
              THEN FormatFrom(text, i + 3, year, name,
                              Append(done, ToString(year)))
              ELSE IF text[i + 1] = "name"
              THEN FormatFrom(text, i + 3, year, name, done \o name)
              ELSE IF text[i + 1] \in Digits
              THEN [exc |-> "IndexError", value |-> <<>>, field |-> text[i + 1]]
              ELSE [exc |-> "KeyError", value |-> <<>>, field |-> text[i + 1]]
         ELSE [exc |-> "ValueError", value |-> <<>>, field |-> ""]
    ELSE IF text[i] = "}"
    THEN IF i + 1 <= Len(text) /\ text[i + 1] = "}"
         THEN FormatFrom(text, i + 2, year, name, Append(done, "}"))
         ELSE [exc |-> "ValueError", value |-> <<>>, field |-> ""]
    ELSE FormatFrom(text, i + 1, year, name, Append(done, text[i]))

\* str.format called with name="" (the author dropped)
Format_without_name(text, year, name) == FormatFrom(text, 1, year, <<>>, <<>>)

Format(text, year, name) == FormatFrom(text, 1, year, name, <<>>)

\* generate_license checking the author before the identifier
generate_license_author_first(licenses, license_name, author, year) ==
    IF ~Truthy(author)
       /\ (HasLicense(licenses, license_name)
             => LicenseOf(licenses, license_name).requires_name)
    THEN Raised("LicenseGenerationError",
                <<"License '", license_name,
                  "' requires an author/organization name">>, <<>>, <<>>)
    ELSE IF ~HasLicense(licenses, license_name)
    THEN Raised("InvalidLicenseError",
                <<"License '", license_name, "' is not available">>, <<>>, <<>>)
    ELSE LET f == Format(LicenseOf(licenses, license_name).text, year,
                         IF Truthy(author) THEN author.text ELSE <<>>)
         IN  IF f.exc = "KeyError"
             THEN Raised("LicenseGenerationError",
                         <<"Failed to format license text: ", f.field>>,
                         <<>>, <<>>)
             ELSE IF f.exc # None
             THEN Raised(f.exc, <<f.field>>, <<>>, <<>>)
             ELSE Returned(<<>>, <<>>, f.value)

\* LicenseManager.generate_license; year is datetime.now().year
generate_license(licenses, license_name, author, year) ==
    IF ~HasLicense(licenses, license_name)
    THEN Raised("InvalidLicenseError",
                <<"License '", license_name, "' is not available">>, <<>>, <<>>)
    ELSE LET license_info == LicenseOf(licenses, license_name)
         IN  IF license_info.requires_name /\ ~Truthy(author)
             THEN Raised("LicenseGenerationError",
                         <<"License '", license_name,
                           "' requires an author/organization name">>,
                         <<>>, <<>>)
             ELSE LET f == Format(license_info.text, year,
                                  IF Truthy(author) THEN author.text ELSE <<>>)
                  IN  IF f.exc = "KeyError"
                      THEN Raised("LicenseGenerationError",
                                  <<"Failed to format license text: ", f.field>>,
                                  <<>>, <<>>)
                      ELSE IF f.exc # None
                      THEN Raised(f.exc, <<f.field>>, <<>>, <<>>)
                      ELSE Returned(<<>>, <<>>, f.value)


----------------------------------------------------------------------------
(* LicenseManager.save_license_file *)

\* most chunks of a text that reach the disk before a write fails
MaxWritten == 0

\* One attempt at open(license_path, "w") followed by f.write(license_text),
\* as the environment decides it: the exception it ends in, whether open
\* succeeded (and so truncated the file) and how many chunks of the text
\* reached the disk.
Attempt(exc, opened, written) ==
    [exc |-> exc, opened |-> opened, written |-> written]

Min(a, b) == IF a < b THEN a ELSE b

\* The attempts possible for a text in directory repo_path: open fails when
\* the directory is missing or refuses the file; the device can fill up
\* after any part of the text was written; otherwise the whole text is
\* written.
WriteAttempts(repo_path, license_text) ==
    IF repo_path \notin dirs
    THEN {Attempt("FileNotFoundError", FALSE, 0)}
    ELSE {Attempt(None, TRUE, Len(license_text)),
          Attempt("PermissionError", FALSE, 0)}
         \cup {Attempt("OSError", TRUE, k) :
                 k \in 0..Min(Len(license_text) - 1, MaxWritten)}

\* the content after an attempt that opens the file without truncating it
\* (mode "r+" on an existing file)
Written_in_place(old, license_text, w) ==
    IF ~w.opened THEN old
    ELSE IF old = NoFile THEN SubSeq(license_text, 1, w.written)
    ELSE SubSeq(license_text, 1, w.written)
         \o SubSeq(old, w.written + 1, Len(old))

\* the content of LICENSE after an attempt: mode "w" truncates at open
Written(old, license_text, w) ==
    IF w.opened THEN SubSeq(license_text, 1, w.written) ELSE old

\* save_license_file with "except PermissionError" in place of
\* "except IOError"
save_license_file_permission_only(repo_path, license_text, w) ==
    [out |-> IF w.exc = "PermissionError"
             THEN Raised("LicenseError",
                         <<"Failed to save LICENSE file: ", w.exc>>, <<>>, <<>>)
             ELSE IF w.exc # None
             THEN Raised(w.exc, <<PathStr(repo_path \o <<"LICENSE">>)>>,
                         <<>>, <<>>)
             ELSE Returned(<<>>, <<>>, <<>>),
     content |-> Written(license_file[repo_path], license_text, w)]

\* LicenseManager.save_license_file: its outcome and the content of
\* repo_path/LICENSE after it (IOError is OSError, so the handler catches
\* every class in OSErrors)
save_license_file(repo_path, license_text, w) ==
    [out |-> IF w.exc \in OSErrors
             THEN Raised("LicenseError",
                         <<"Failed to save LICENSE file: ", w.exc>>, <<>>, <<>>)
             ELSE IF w.exc # None
             THEN Raised(w.exc, <<PathStr(repo_path \o <<"LICENSE">>)>>,
                         <<>>, <<>>)
             ELSE Returned(<<>>, <<>>, <<>>),
     content |-> Written(license_file[repo_path], license_text, w)]

----------------------------------------------------------------------------
(* RepoManagerApp *)

\* an attribute holding None is the empty sequence, one holding an object
\* the sequence of that object
Unset == <<>>

\* initialize_managers handing the store already loaded to the new license
\* manager instead of loading it again
initialize_managers_store_kept(repo_path, probe) ==
    LET g == GitManager(repo_path, probe)
    IN  IF g.exc # None
        THEN [out |-> g, git_manager |-> git_manager,
              license_manager |-> license_manager]
        ELSE IF license_manager # Unset
        THEN [out |-> Returned(g.calls, <<>>, <<>>),
              git_manager |-> g.value,
              license_manager |->
                 <<[repo_path |-> absolute(repo_path),
                    licenses |-> license_manager[1].licenses]>>]
        ELSE LET l == LicenseManager(repo_path, licenses_json)
             IN  IF l.exc # None
                 THEN [out |-> [l EXCEPT !.calls = g.calls],
                       git_manager |-> g.value,
                       license_manager |-> license_manager]
                 ELSE [out |-> Returned(g.calls, <<>>, <<>>),
                       git_manager |-> g.value,
                       license_manager |-> l.value]

\* RepoManagerApp.initialize_managers: the outcome and the two attributes
\* after the call
initialize_managers(repo_path, probe) ==
    LET g == GitManager(repo_path, probe)
    IN  IF g.exc # None
        THEN [out |-> g, git_manager |-> git_manager,
              license_manager |-> license_manager]
        ELSE LET l == LicenseManager(repo_path, licenses_json)
             IN  IF l.exc # None
                 THEN [out |-> [l EXCEPT !.calls = g.calls],
                       git_manager |-> g.value,
                       license_manager |-> license_manager]
                 ELSE [out |-> Returned(g.calls, <<>>, <<>>),
                       git_manager |-> g.value,
                       license_manager |-> l.value]

\* create_repository assigning the two services only once init_repo has
\* succeeded
create_repository_bind_on_success(repo_path, probe, mkdir_ok, proc) ==
    LET im == initialize_managers(repo_path, probe)
    IN  IF im.out.exc # None THEN im
        ELSE LET r == init_repo(im.git_manager[1].repo_path, mkdir_ok, proc)
             IN  IF r.exc # None
                 THEN [out |-> [r EXCEPT !.calls = im.out.calls \o r.calls],
                       git_manager |-> git_manager,
                       license_manager |-> license_manager]
                 ELSE [im EXCEPT
                          !.out = [r EXCEPT !.calls = im.out.calls \o r.calls]]

\* RepoManagerApp.create_repository
create_repository(repo_path, probe, mkdir_ok, proc) ==
    LET im == initialize_managers(repo_path, probe)
    IN  IF im.out.exc # None THEN im
        ELSE LET r == init_repo(im.git_manager[1].repo_path, mkdir_ok, proc)
             IN  [im EXCEPT !.out = [r EXCEPT !.calls = im.out.calls \o r.calls]]

\* generate_and_add_license with the failure of save_license_file swallowed
\* (try: ... except LicenseError: pass)
generate_and_add_license_persist_unchecked(license_name, author, year, w) ==
    IF git_manager = Unset \/ license_manager = Unset
    THEN [out |-> Raised("RepoManagerError", <<"Managers not initialized">>,
                         <<>>, <<>>),
          license_file |-> license_file, steps |-> <<>>, stage |-> FALSE]
    ELSE LET g == generate_license(license_manager[1].licenses, license_name,
                                   author, year)
         IN  IF g.exc # None
             THEN [out |-> g, license_file |-> license_file,
                   steps |-> <<"generate_license">>, stage |-> FALSE]
             ELSE LET s == save_license_file(license_manager[1].repo_path,
                                             g.value, w)
                  IN  [out |-> s.out,
                       license_file |->
                          [license_file EXCEPT
                              ![license_manager[1].repo_path] = s.content],
                       steps |-> <<"generate_license", "save_license_file",
                                   "add_files">>,
                       stage |-> TRUE]

\* RepoManagerApp.generate_and_add_license up to its last statement: the
\* outcome so far, the LICENSE files after it, the methods it went through
\* and whether control reaches self.git_manager.add_files(["LICENSE"]),
\* which then runs on the disk as save_license_file left it
generate_and_add_license(license_name, author, year, w) ==
    IF git_manager = Unset \/ license_manager = Unset
    THEN [out |-> Raised("RepoManagerError", <<"Managers not initialized">>,
                         <<>>, <<>>),
          license_file |-> license_file, steps |-> <<>>, stage |-> FALSE]
    ELSE LET g == generate_license(license_manager[1].licenses, license_name,
                                   author, year)
         IN  IF g.exc # None
             THEN [out |-> g, license_file |-> license_file,
                   steps |-> <<"generate_license">>, stage |-> FALSE]
             ELSE LET s == save_license_file(license_manager[1].repo_path,
                                             g.value, w)
                  IN  IF s.out.exc # None
                      THEN [out |-> s.out,
                            license_file |->
                               [license_file EXCEPT
                                   ![license_manager[1].repo_path] = s.content],
                            steps |-> <<"generate_license",
                                        "save_license_file">>,
                            stage |-> FALSE]
                      ELSE [out |-> s.out,
                            license_file |->
                               [license_file EXCEPT
                                   ![license_manager[1].repo_path] = s.content],
                            steps |-> <<"generate_license", "save_license_file",
                                        "add_files">>,
                            stage |-> TRUE]

----------------------------------------------------------------------------
(* Inputs *)

\* the paths a caller hands to add_files
FileInputs ==
    {<<"a">>, <<".", "b">>, <<"missing">>, <<"/", "w", "r1", "a">>,
     <<"/", "etc", "hosts">>}
FileLists == UNION {[1..n -> FileInputs] : n \in 0..MaxFiles}
SmallFileLists == {<<>>, <<<<"a">>>>, <<<<"missing">>>>}

Messages == {"", "first commit"}
Remotes == {"origin"}
RemoteBranches == {"main"}
BranchNames == {"", "dev"}

\* datetime.now().year
Years == {2026, 2027}

----------------------------------------------------------------------------
(* The state machine *)

\* the record of a call: the operation, the path it was bound to, its
\* arguments, its outcome and the methods of the services it went through
Call(op, target, args, o) ==
    [op |-> op, target |-> target, args |-> args, exc |-> o.exc, msg |-> o.msg,
     calls |-> o.calls, mkdirs |-> o.mkdirs, value |-> o.value, steps |-> <<>>]

CallThrough(op, target, args, o, steps) ==
    [Call(op, target, args, o) EXCEPT !.steps = steps]

Init ==
    /\ dirs = {absolute(<<"r1">>)}
    /\ marker = {}
    /\ files = [d \in Repos |->
                  IF d = absolute(<<"r1">>) THEN {<<"a">>, <<"b">>} ELSE {<<"a">>}]
    /\ index = [d \in Repos |-> {}]
    /\ license_file = [d \in Repos |-> NoFile]
    /\ licenses_json \in LicensesJsonStates
    /\ git_manager = Unset
    /\ license_manager = Unset
    /\ result = Call("start", <<>>, <<>>, Returned(<<>>, <<>>, <<>>))

\* the directories on disk after a call of init_repo on p with outcome o
DirsAfterInit(p, o, mkdir_ok) ==
    IF o.mkdirs # <<>> /\ mkdir_ok THEN dirs \cup {p} ELSE dirs

\* the markers on disk after a call of init_repo on p with outcome o
MarkerAfterInit(p, o) == IF o.exc = None THEN marker \cup {p} ELSE marker

MkdirOutcomes(p) == IF p \in dirs THEN {TRUE} ELSE BOOLEAN

InitializeManagers(repo_path) ==
    \E probe \in Probes :
    \E im \in {initialize_managers(repo_path, probe)} :
           /\ git_manager' = im.git_manager
           /\ license_manager' = im.license_manager
           /\ result' = Call("initialize_managers", absolute(repo_path), <<>>,
                             im.out)
           /\ UNCHANGED <<dirs, marker, files, index, license_file,
                          licenses_json>>

CreateRepository(repo_path) ==
    \E probe \in Probes : \E mkdir_ok \in MkdirOutcomes(absolute(repo_path)) :
    \E proc \in ChildProcesses(absolute(repo_path), <<"init">>, {NoOutput}) :
    \E cr \in {create_repository(repo_path, probe, mkdir_ok, proc)} :
       LET p == absolute(repo_path)
       IN  /\ git_manager' = cr.git_manager
           /\ license_manager' = cr.license_manager
           /\ dirs' = DirsAfterInit(p, cr.out, mkdir_ok)
           /\ marker' = MarkerAfterInit(p, cr.out)
           /\ result' = Call("create_repository", p, <<>>, cr.out)
           /\ UNCHANGED <<files, index, license_file, licenses_json>>

InitRepo ==
    /\ git_manager # Unset
    /\ LET p == git_manager[1].repo_path
       IN  \E mkdir_ok \in MkdirOutcomes(p) :
           \E proc \in ChildProcesses(p, <<"init">>, {NoOutput}) :
              LET o == init_repo(p, mkdir_ok, proc)
              IN  /\ dirs' = DirsAfterInit(p, o, mkdir_ok)
                  /\ marker' = MarkerAfterInit(p, o)
                  /\ result' = Call("init_repo", p, <<>>, o)
                  /\ UNCHANGED <<files, index, license_file, licenses_json,
                                 git_manager, license_manager>>


\* the instance the facade holds, once it holds one
Bound == git_manager # Unset
RepoPath == git_manager[1].repo_path

\* a call of a GitManager method that leaves all but the index alone
Executed(op, args, o, staged) ==
    /\ result' = Call(op, RepoPath, args, o)
    /\ index' = staged
    /\ UNCHANGED <<dirs, marker, files, license_file, licenses_json,
                   git_manager, license_manager>>

\* the paths a successful "git add" was given
PathArgs(o) == SubSeq(o.calls[1].argv, 3, Len(o.calls[1].argv))
Range(seq) == {seq[i] : i \in 1..Len(seq)}

AddFiles(lists) ==
    /\ Bound
    /\ \E file_paths \in lists :
       \E proc \in ChildProcesses(RepoPath, <<"add">>, {NoOutput}) :
          LET o == add_files(RepoPath, file_paths, proc)
          IN  Executed("add_files", file_paths, o,
                       IF o.exc = None
                       THEN [index EXCEPT ![RepoPath] = @ \cup Range(PathArgs(o))]
                       ELSE index)

Commit ==
    /\ Bound
    /\ \E message \in Messages :
       \E proc \in ChildProcesses(RepoPath, <<"commit">>, {NoOutput}) :
          LET o == commit(RepoPath, message, proc)
          IN  Executed("commit", <<<<message>>>>, o,
                       IF o.exc = None
                       THEN [index EXCEPT ![RepoPath] = {}] ELSE index)

Push ==
    /\ Bound
    /\ \E remote \in Remotes : \E branch \in RemoteBranches :
       \E proc \in ChildProcesses(RepoPath, <<"push">>, {NoOutput}) :
          Executed("push", <<<<remote>>, <<branch>>>>,
                   push(RepoPath, remote, branch, proc), index)

Pull ==
    /\ Bound
    /\ \E remote \in Remotes : \E branch \in RemoteBranches :
       \E proc \in ChildProcesses(RepoPath, <<"pull">>, {NoOutput}) :
          Executed("pull", <<<<remote>>, <<branch>>>>,
                   pull(RepoPath, remote, branch, proc), index)

CreateBranch ==
    /\ Bound
    /\ \E branch_name \in BranchNames :
       \E proc \in ChildProcesses(RepoPath, <<"checkout">>, {NoOutput}) :
          Executed("create_branch", <<<<branch_name>>>>,
                   create_branch(RepoPath, branch_name, proc), index)

Merge ==
    /\ Bound
    /\ \E branch_name \in BranchNames :
       \E proc \in ChildProcesses(RepoPath, <<"merge">>, {NoOutput}) :
          Executed("merge", <<<<branch_name>>>>,
                   merge(RepoPath, branch_name, proc), index)

Checkout ==
    /\ Bound
    /\ \E branch_name \in BranchNames :
       \E proc \in ChildProcesses(RepoPath, <<"checkout">>, {NoOutput}) :
          Executed("checkout", <<<<branch_name>>>>,
                   checkout(RepoPath, branch_name, proc), index)

\* a text as the one value of a call
One(o) == IF o.exc = None THEN [o EXCEPT !.value = <<o.value>>] ELSE o

Status ==
    /\ Bound
    /\ \E proc \in ChildProcesses(RepoPath, <<"status">>, StatusOutputs) :
          Executed("status", <<>>, One(status(RepoPath, proc)), index)

IsRepository ==
    /\ Bound
    /\ Executed("is_repository", <<>>,
                Returned(<<>>, <<>>,
                         <<<<IF is_repository(RepoPath) THEN "True" ELSE "False">>>>),
                index)

\* stdouts: what the tool may print for "git branch"
ListBranches(stdouts) ==
    /\ Bound
    /\ \E proc \in ChildProcesses(RepoPath, <<"branch">>, stdouts) :
          Executed("list_branches", <<proc.stdout>>,
                   list_branches(RepoPath, proc), index)


\* the store of the instance the facade holds
Licenses == license_manager[1].licenses

\* a call of a LicenseManager method that reads the store only
Consulted(op, args, o) ==
    /\ result' = Call(op, license_manager[1].repo_path, args, o)
    /\ UNCHANGED <<dirs, marker, files, index, license_file, licenses_json,
                   git_manager, license_manager>>

\* the arguments of generate_license as the call records them
GenerateArgs(license_name, author, year) ==
    <<<<license_name>>, author.text,
      <<IF author.given THEN "str" ELSE "None">>, <<ToString(year)>>>>

GenerateLicense(names, authors) ==
    /\ license_manager # Unset
    /\ \E license_name \in names : \E author \in authors : \E year \in Years :
          Consulted("generate_license",
                    GenerateArgs(license_name, author, year),
                    One(generate_license(Licenses, license_name, author, year)))

GetAvailableLicenses ==
    /\ license_manager # Unset
    /\ Consulted("get_available_licenses", <<>>,
                 Returned(<<>>, <<>>, <<get_available_licenses(Licenses)>>))

\* the texts generate_license returns from the store the facade holds
GeneratedTexts(names, authors, years) ==
    {g.value : g \in {o \in {generate_license(Licenses, n, a, y) :
                               n \in names, a \in authors, y \in years} :
                         o.exc = None}}

SaveLicenseFile(names, authors, years) ==
    /\ license_manager # Unset
    /\ \E repo_path \in {license_manager[1].repo_path} :
       \E license_text \in GeneratedTexts(names, authors, years) :
       \E w \in WriteAttempts(repo_path, license_text) :
       \E s \in {save_license_file(repo_path, license_text, w)} :
          /\ license_file' = [license_file EXCEPT ![repo_path] = s.content]
          /\ result' = Call("save_license_file", repo_path, <<license_text>>,
                            s.out)
          /\ UNCHANGED <<dirs, marker, files, index, licenses_json,
                         git_manager, license_manager>>

\* the attempts at writing LICENSE open to a call of generate_and_add_license
AttemptsFor(license_name, author, year) ==
    IF license_manager = Unset THEN {Attempt(None, FALSE, 0)}
    ELSE LET g == generate_license(Licenses, license_name, author, year)
         IN  IF g.exc # None THEN {Attempt(None, FALSE, 0)}
             ELSE WriteAttempts(license_manager[1].repo_path, g.value)

\* the child processes open to its "git add"
StagingProcesses ==
    IF git_manager = Unset THEN {Process(FALSE, 1, NoOutput, "")}
    ELSE ChildProcesses(RepoPath, <<"add">>, {NoOutput})

\* generate_and_add_license: g is the call up to save_license_file and o the
\* outcome of the whole call, add_files reading the disk as
\* save_license_file left it
GenerateAndAddLicense(names, authors, years) ==
    \E license_name \in names : \E author \in authors : \E year \in years :
    \E w \in AttemptsFor(license_name, author, year) :
    \E proc \in StagingProcesses :
    \E g \in {generate_and_add_license(license_name, author, year, w)} :
       /\ license_file' = g.license_file
       /\ UNCHANGED <<dirs, marker, files, licenses_json, git_manager,
                      license_manager>>
       /\ \E o \in {IF g.stage
                    THEN (add_files(RepoPath, <<<<"LICENSE">>>>, proc))'
                    ELSE g.out} :
             /\ index' = IF g.stage /\ o.exc = None
                         THEN [index EXCEPT
                                 ![RepoPath] = @ \cup Range(PathArgs(o))]
                         ELSE index
             /\ result' = CallThrough("generate_and_add_license",
                              IF Bound THEN RepoPath ELSE <<>>,
                              GenerateArgs(license_name, author, year),
                              o, g.steps)

\* the environment rewrites, removes or creates licenses.json
EditLicensesJson ==
    /\ licenses_json' \in LicensesJsonStates \ {licenses_json}
    /\ result' = Call("edit_licenses_json", <<>>, <<>>,
                      Returned(<<>>, <<>>, <<>>))
    /\ UNCHANGED <<dirs, marker, files, index, license_file, git_manager,
                   license_manager>>

----------------------------------------------------------------------------
(* What the tool prints for "git branch" *)

BranchNameTexts ==
    {<<"m">>, <<"d", "e", "v">>, <<"f", "/", "x">>,
     <<"(", "n", "o", " ", "b", ")">>}

\* listings of distinct branches, in the tool's order
BranchListings ==
    {ns \in UNION {[1..n -> BranchNameTexts] : n \in 0..MaxBranches} :
        \A i, j \in 1..Len(ns) : ns[i] = ns[j] => i = j}

RECURSIVE Flatten(_)
Flatten(seqs) == IF seqs = <<>> THEN <<>> ELSE Head(seqs) \o Flatten(Tail(seqs))

\* one line of the listing: two columns of marker, then the name
BranchLine(name, current) ==
    (IF current THEN <<"*", " ">> ELSE <<" ", " ">>) \o name \o <<"\n">>

\* the listing of branches ns with the cur-th one checked out (0: none)
BranchOutput(ns, cur) ==
    Flatten([i \in 1..Len(ns) |-> BranchLine(ns[i], i = cur)])

BranchOutputs ==
    UNION {{BranchOutput(ns, cur) : cur \in 0..Len(ns)} : ns \in BranchListings}

SmallBranchOutputs ==
    {BranchOutput(<<<<"m">>, <<"d", "e", "v">>>>, cur) : cur \in {1, 2}}

----------------------------------------------------------------------------
(* Inputs of generate_license *)

DefaultNames == {default_licenses[i].key : i \in 1..Len(default_licenses)}
CustomNames == {CustomJson[i].key : i \in 1..Len(CustomJson)}
LicenseNames == DefaultNames \cup CustomNames \cup {"NotARealLicense"}

Authors ==
    {NoAuthor, AuthorOf(<<>>), AuthorOf(<<"Acme Corp">>),
     AuthorOf(<<"{", "name", "}", " & ", "{", "year", "}">>)}

SmallNames == {"MIT", "NotARealLicense"}
SmallAuthors == {NoAuthor, AuthorOf(<<"Acme Corp">>)}

----------------------------------------------------------------------------
(* Specifications *)

\* the operations of the executor and the methods of the license manager
\* that leave LICENSE alone; the calls that write it are in NextFacade and
\* NextPersist
Next ==
    \/ \E repo_path \in RepoInputs : InitializeManagers(repo_path)
    \/ \E repo_path \in RepoInputs : CreateRepository(repo_path)
    \/ InitRepo
    \/ AddFiles(SmallFileLists)
    \/ Commit
    \/ Push
    \/ Pull
    \/ CreateBranch
    \/ Merge
    \/ Checkout
    \/ Status
    \/ IsRepository
    \/ ListBranches(SmallBranchOutputs)
    \/ GenerateLicense(SmallNames, SmallAuthors)
    \/ GetAvailableLicenses

Spec == Init /\ [][Next]_vars

\* The state after create_repository("r1") succeeded, for a store loaded
\* from either source.
InitBound ==
    /\ dirs = {absolute(<<"r1">>)}
    /\ marker = {absolute(<<"r1">>)}
    /\ files = [d \in Repos |->
                  IF d = absolute(<<"r1">>) THEN {<<"a">>, <<"b">>} ELSE {<<"a">>}]
    /\ index = [d \in Repos |-> {}]
    /\ license_file = [d \in Repos |-> NoFile]
    /\ licenses_json \in {j \in LicensesJsonStates : j.state # "invalid"}
    /\ git_manager = GitManager(<<"r1">>, "exit0").value
    /\ license_manager = LicenseManager(<<"r1">>, licenses_json).value
    /\ result = Call("create_repository", absolute(<<"r1">>), <<>>,
                     Returned(<<Ran(VersionQuery, 0, ""),
                                Ran(<<"git", "init">>, 0, "")>>,
                              <<absolute(<<"r1">>)>>, <<>>))

\* The states in which a GitManager exists: bound to either path, every
\* directory on disk a repository.
InitExecutor ==
    /\ dirs \in {ds \in SUBSET Repos : absolute(<<"r1">>) \in ds}
    /\ marker = dirs
    /\ files = [d \in Repos |->
                  IF d = absolute(<<"r1">>) THEN {<<"a">>, <<"b">>} ELSE {<<"a">>}]
    /\ index = [d \in Repos |-> {}]
    /\ license_file = [d \in Repos |-> NoFile]
    /\ licenses_json = JsonFile("absent", <<>>)
    /\ git_manager \in {GitManager(p, "exit0").value : p \in RepoInputs}
    /\ license_manager = LicenseManager(git_manager[1].repo_path,
                                        licenses_json).value
    /\ result = Call("initialize_managers", git_manager[1].repo_path, <<>>,
                     Returned(<<Ran(VersionQuery, 0, "")>>, <<>>, <<>>))

\* add_files over every list of paths, and commit
NextAdd ==
    \/ AddFiles(FileLists)
    \/ Commit
SpecAdd == InitExecutor /\ [][NextAdd]_vars

\* list_branches over every listing the tool can print
NextBranches == ListBranches(BranchOutputs)
SpecBranches == InitBound /\ [][NextBranches]_vars

\* generate_license over every identifier and author
NextLicense ==
    \/ GenerateLicense(LicenseNames, Authors)
    \/ GetAvailableLicenses
SpecLicense == InitBound /\ [][NextLicense]_vars

\* the use cases of the facade with licenses.json changing under them
NextFacade ==
    \/ \E repo_path \in RepoInputs : CreateRepository(repo_path)
    \/ GenerateAndAddLicense({"Plain"}, {AuthorOf(<<"Acme Corp">>)}, {2026})
    \/ GetAvailableLicenses
    \/ IsRepository
    \/ Commit
    \/ EditLicensesJson
SpecFacade == Init /\ [][NextFacade]_vars

\* The states after initialize_managers(p) on a disk where r1 is a
\* repository and r2 does not exist, for a store loaded from either source.
InitPersist ==
    /\ dirs = {absolute(<<"r1">>)}
    /\ marker = {absolute(<<"r1">>)}
    /\ files = [d \in Repos |->
                  IF d = absolute(<<"r1">>) THEN {<<"a">>, <<"b">>} ELSE {<<"a">>}]
    /\ index = [d \in Repos |-> {}]
    /\ license_file = [d \in Repos |-> NoFile]
    /\ licenses_json \in {j \in LicensesJsonStates : j.state # "invalid"}
    /\ git_manager \in {GitManager(p, "exit0").value : p \in RepoInputs}
    /\ license_manager = LicenseManager(git_manager[1].repo_path,
                                        licenses_json).value
    /\ result = Call("initialize_managers", git_manager[1].repo_path, <<>>,
                     Returned(<<Ran(VersionQuery, 0, "")>>, <<>>, <<>>))

\* generate_and_add_license and save_license_file for templates of several
\* lengths and for every way generate_license fails, on a facade that stays
\* bound
PersistNames ==
    {"MIT", "BSD-4-Clause", "Plain", "Optional", "Owner", "Positional",
     "NotARealLicense"}

NextPersist ==
    \/ GenerateAndAddLicense(PersistNames, SmallAuthors, {2026})
    \/ SaveLicenseFile(PersistNames, SmallAuthors, {2026})
    \/ Commit
SpecPersist == InitPersist /\ [][NextPersist]_vars

----------------------------------------------------------------------------
(* The error kinds of the specification, read off the exception raised *)

ErrorKind(r) ==
    IF r.exc = None THEN "None"
    ELSE IF r.exc = "GitOperationError"
    THEN CASE r.msg[1] = "Git is not installed or not in PATH" -> "ToolUnavailable"
           [] r.msg[1] = "Repository already exists at " -> "AlreadyExists"
           [] r.msg[1] \in {"No files specified to add",
                            "Commit message cannot be empty",
                            "Branch name cannot be empty"} -> "InvalidArgument"
           [] r.msg[1] = "File not found: " -> "FileNotFound"
           [] r.msg[1] \in {"Git command failed: ",
                            "Failed to create repository: "} -> "OperationFailed"
           [] OTHER -> "Untyped"
    ELSE IF r.exc = "InvalidLicenseError" THEN "UnknownLicense"
    ELSE IF r.exc = "LicenseGenerationError"
    THEN (IF r.msg[1] = "Failed to format license text: "
          THEN "TemplateMalformed" ELSE "MissingAuthor")
    ELSE IF r.exc = "LicenseError"
    THEN (IF r.msg[1] = "Failed to save LICENSE file: "
          THEN "WriteFailed" ELSE "StoreUnreadable")
    ELSE IF r.exc = "RepoManagerError" THEN "NotInitialized"
    ELSE "Untyped"

----------------------------------------------------------------------------
(* C1 *)

\* the step is a call of op on the path p (every action records its call)
CallOf(op, p) == result'.op = op /\ result'.target = p

\* C1: init_repo is not idempotent.  A call that succeeds on a path leaves
\* the repository marker there, the marker is never removed, and every call
\* of init_repo on a path that holds the marker fails with AlreadyExists
\* without calling mkdir, running the tool or changing the disk; so does
\* create_repository once its two services are constructed.
C1_InitRepoNotIdempotent ==
    [][\A p \in Repos :
          /\ p \in marker => p \in marker'
          /\ CallOf("init_repo", p) =>
                /\ result'.exc = None => p \in marker'
                /\ p \in marker =>
                      /\ ErrorKind(result') = "AlreadyExists"
                      /\ result'.calls = <<>>
                      /\ result'.mkdirs = <<>>
                      /\ dirs' = dirs /\ marker' = marker
          /\ CallOf("create_repository", p) =>
                /\ result'.exc = None => p \in marker'
                /\ p \in marker =>
                      /\ result'.exc # None
                      /\ \A i \in 1..Len(result'.calls) :
                            result'.calls[i].argv = VersionQuery
                      /\ (git_manager' # Unset /\ license_manager' # Unset
                          /\ git_manager'[1].repo_path = p
                          /\ license_manager'[1].repo_path = p
                          /\ result'.exc = "GitOperationError"
                          /\ result'.calls[1].returncode = 0)
                            => ErrorKind(result') = "AlreadyExists"
                      /\ result'.mkdirs = <<>>
                      /\ dirs' = dirs /\ marker' = marker]_vars

\* a second init_repo on a path that a first one initialised has failed
C1_Witness ==
    /\ result.op = "init_repo"
    /\ ErrorKind(result) = "AlreadyExists"
    /\ result.target \in marker
    /\ result.calls = <<>>


----------------------------------------------------------------------------
(* C2 *)

\* C2: add_files with an empty list, commit with an empty message and
\* create_branch with an empty name fail with InvalidArgument, and no child
\* process is run during the call.
C2_EmptyInputIsInvalidArgument ==
    (\/ result.op = "add_files" /\ result.args = <<>>
     \/ result.op \in {"commit", "create_branch"} /\ result.args = <<<<"">>>>)
    => /\ ErrorKind(result) = "InvalidArgument"
       /\ result.calls = <<>>

\* commit("") was called on a repository and was refused
C2_Witness ==
    /\ result.op = "commit"
    /\ result.args = <<<<"">>>>
    /\ result.target \in marker
    /\ ErrorKind(result) = "InvalidArgument"

----------------------------------------------------------------------------
(* C3 *)

\* the call r of add_files names a path that does not exist on disk
SomeMissing(r) ==
    \E i \in 1..Len(r.args) : ~Exists(JoinPath(r.target, r.args[i]))

\* C3: add_files with a non-empty list of which some path, resolved against
\* the repository root, does not exist fails with FileNotFound and runs no
\* child process, wherever the missing path sits in the list.
C3_MissingFileIsFileNotFound ==
    (result.op = "add_files" /\ result.args # <<>> /\ SomeMissing(result))
    => /\ ErrorKind(result) = "FileNotFound"
       /\ result.calls = <<>>

----------------------------------------------------------------------------
(* C4 *)

\* the given path g names a file under the repository root t
UnderRoot(t, g) ==
    t \in dirs /\ \E f \in files[t] : JoinPath(t, g) = t \o f

\* the file under t that the given path g names
FileOf(t, g) == CHOOSE f \in files[t] : JoinPath(t, g) = t \o f

\* C4: add_files with a non-empty list of paths that all exist under the
\* repository root runs exactly one child process, "git add" followed by
\* the given files in the given order; the call succeeds exactly when that
\* process exits zero, and then the files are staged.
C4_AddStagesGivenPathsInOrder ==
    (/\ result.op = "add_files"
     /\ result.args # <<>>
     /\ \A i \in 1..Len(result.args) : UnderRoot(result.target, result.args[i]))
    => /\ ErrorKind(result) \in {"None", "OperationFailed"}
       /\ Len(result.calls) = 1
       /\ result.calls[1].argv =
            <<"git", "add">> \o
            [i \in 1..Len(result.args) |->
                PathStr(FileOf(result.target, result.args[i]))]
       /\ result.exc = None <=> result.calls[1].returncode = 0
       /\ result.exc = None =>
            \A i \in 1..Len(result.args) :
                PathStr(FileOf(result.target, result.args[i]))
                    \in index[result.target]

\* two different files, one of them given in a form that is not the
\* relative one, were staged by one call
C4_Witness ==
    /\ result.op = "add_files"
    /\ result.exc = None
    /\ result.args = <<<<".", "b">>, <<"/", "w", "r1", "a">>>>
    /\ result.calls[1].argv = <<"git", "add", "b", "a">>
    /\ index[result.target] = {"a", "b"}

----------------------------------------------------------------------------
(* C5 *)

\* the space-joined argument vector the operation of call r hands the tool
JoinedArgs(r) ==
    CASE r.op \in {"init_repo", "create_repository"} -> "init"
      [] r.op = "add_files" ->
            JoinWith(SubSeq(r.calls[1].argv, 2, Len(r.calls[1].argv)), " ")
      [] r.op = "commit" -> "commit -m " \o r.args[1][1]
      [] r.op = "push" -> "push -u " \o r.args[1][1] \o " " \o r.args[2][1]
      [] r.op = "pull" -> "pull " \o r.args[1][1] \o " " \o r.args[2][1]
      [] r.op = "create_branch" -> "checkout -b " \o r.args[1][1]
      [] r.op = "merge" -> "merge " \o r.args[1][1]
      [] r.op = "checkout" -> "checkout " \o r.args[1][1]
      [] r.op = "list_branches" -> "branch"
      [] r.op = "status" -> "status"
      [] OTHER -> ""

\* C5: whenever a child process run by an operation of the executor exits
\* nonzero, the operation fails with OperationFailed (GitOperationError)
\* whose message carries the space-joined argument vector and the captured
\* stderr, and returns nothing.
C5_NonzeroExitIsOperationFailed ==
    \A i \in 1..Len(result.calls) :
        (result.calls[i].returncode # 0 /\ result.calls[i].argv # VersionQuery)
        => /\ result.exc = "GitOperationError"
           /\ result.msg = <<"Git command failed: ", JoinedArgs(result), "\n",
                             result.calls[i].stderr>>
           /\ ErrorKind(result) = "OperationFailed"
           /\ result.value = <<>>

\* a merge, which has no check of its own, failed in the tool
C5_Witness ==
    /\ result.op = "merge"
    /\ Len(result.calls) = 1
    /\ result.calls[1].returncode # 0
    /\ result.calls[1].stderr = "fatal: refused"
    /\ result.msg = <<"Git command failed: ", "merge dev", "\n", "fatal: refused">>

----------------------------------------------------------------------------
(* C6 *)

\* C6: constructing the executor fails with ToolUnavailable whenever the
\* version query cannot be executed: when it cannot be spawned (no child
\* process ran) and when it exits nonzero.
C6_ConstructionFailsToolUnavailable ==
    (/\ result.op \in {"initialize_managers", "create_repository"}
     /\ (result.calls = <<>> \/ result.calls[1].returncode # 0))
    => ErrorKind(result) = "ToolUnavailable"


----------------------------------------------------------------------------
(* C7 *)

\* the branches ns with the cur-th one moved to the front (0: none is
\* current), the others keeping their order
CurrentFirst(ns, cur) ==
    IF cur = 0 THEN ns
    ELSE <<ns[cur]>> \o
         [i \in 1..(Len(ns) - 1) |-> IF i < cur THEN ns[i] ELSE ns[i + 1]]

\* C7: for every listing the tool prints, one branch per line and at most
\* one of them marked as current, list_branches returns every branch name
\* once, without marker and whitespace, the current branch first and the
\* others in the tool's order; with no marked line, the tool's order.
C7_ListBranchesCurrentFirst ==
    (result.op = "list_branches" /\ result.exc = None)
    => \A ns \in BranchListings : \A cur \in 0..Len(ns) :
          result.args[1] = BranchOutput(ns, cur)
          => result.value = CurrentFirst(ns, cur)

\* three branches were listed with the last one current
C7_Witness ==
    /\ result.op = "list_branches"
    /\ result.exc = None
    /\ result.args[1] =
          BranchOutput(<<<<"m">>, <<"d", "e", "v">>, <<"f", "/", "x">>>>, 3)
    /\ result.value = <<<<"f", "/", "x">>, <<"m">>, <<"d", "e", "v">>>>

----------------------------------------------------------------------------
(* C8 *)

\* the call r of generate_license names an identifier of the store
Known(r) == \E i \in 1..Len(Licenses) : Licenses[i].key = r.args[1][1]

\* ... whose template requires a name
NeedsName(r) ==
    \E i \in 1..Len(Licenses) :
        Licenses[i].key = r.args[1][1] /\ Licenses[i].info.requires_name

\* the author of call r is None or empty
AuthorMissing(r) == r.args[2] = <<>>

\* C8: generate_license fails with UnknownLicense exactly when the
\* identifier is not in the store, whatever the author; it fails with
\* MissingAuthor exactly when the identifier is in the store, its template
\* requires a name and the author is empty or None.
C8_GenerateFailurePrecedence ==
    result.op = "generate_license"
    => /\ ErrorKind(result) = "UnknownLicense" <=> ~Known(result)
       /\ ErrorKind(result) = "MissingAuthor" <=>
             (Known(result) /\ NeedsName(result) /\ AuthorMissing(result))

\* an unknown identifier was asked for without an author
C8_Witness ==
    /\ result.op = "generate_license"
    /\ result.args[1] = <<"NotARealLicense">>
    /\ result.args[3] = <<"None">>
    /\ ErrorKind(result) = "UnknownLicense"

----------------------------------------------------------------------------
(* C9 *)

BuiltinIds ==
    {"MIT", "Apache-2.0", "BSD-2-Clause", "BSD-3-Clause", "Apache-1.1",
     "BSD-4-Clause"}

\* the body of the built-in template id
BuiltinBody(id) ==
    default_licenses[CHOOSE i \in 1..Len(default_licenses) :
                        default_licenses[i].key = id].data.text

\* body with every {year} replaced by year_text and every {name} by name
RECURSIVE Substitute(_, _, _)
Substitute(body, year_text, name) ==
    IF body = <<>> THEN <<>>
    ELSE IF Len(body) >= 3 /\ SubSeq(body, 1, 3) = <<"{", "year", "}">>
    THEN <<year_text>> \o Substitute(SubSeq(body, 4, Len(body)), year_text, name)
    ELSE IF Len(body) >= 3 /\ SubSeq(body, 1, 3) = <<"{", "name", "}">>
    THEN name \o Substitute(SubSeq(body, 4, Len(body)), year_text, name)
    ELSE <<Head(body)>> \o Substitute(Tail(body), year_text, name)

\* part occurs in text
Contains(text, part) ==
    \E i \in 0..(Len(text) - Len(part)) : SubSeq(text, i + 1, i + Len(part)) = part

HasBrace(text) == \E i \in 1..Len(text) : text[i] \in Braces

\* C9: with the built-in store, generate_license of any of the six built-in
\* identifiers with a non-empty author succeeds and returns the template
\* body with every {year} replaced by the current year and every {name} by
\* the author: it contains the author and the year, and no brace unless the
\* author brought it.
C9_BuiltinsGenerate ==
    (/\ result.op = "generate_license"
     /\ licenses_json.state = "absent"
     /\ result.args[1][1] \in BuiltinIds
     /\ ~AuthorMissing(result))
    => /\ result.exc = None
       /\ result.value =
            <<Substitute(BuiltinBody(result.args[1][1]), result.args[4][1],
                         result.args[2])>>
       /\ Contains(result.value[1], result.args[2])
       /\ Contains(result.value[1], result.args[4])
       /\ ~HasBrace(result.args[2]) => ~HasBrace(result.value[1])

\* the template with the most placeholders was generated for an author
C9_Witness ==
    /\ result.op = "generate_license"
    /\ licenses_json.state = "absent"
    /\ result.args[1] = <<"BSD-4-Clause">>
    /\ result.args[2] = <<"Acme Corp">>
    /\ result.exc = None
    /\ Contains(result.value[1], <<"2027", " ", "Acme Corp">>)

----------------------------------------------------------------------------
(* C10 *)

\* the body holds a placeholder other than {year} and {name}: an empty one,
\* a positional one or another key
UnknownPlaceholder(body) ==
    \E i \in 1..Len(body) :
        /\ body[i] = "{"
        /\ i = 1 \/ body[i - 1] # "{"
        /\ \/ i + 1 <= Len(body) /\ body[i + 1] = "}"
           \/ /\ i + 2 <= Len(body)
              /\ body[i + 1] \notin Braces \cup {"year", "name"}
              /\ body[i + 2] = "}"

\* the template of the identifier of call r
TemplateOf(r) ==
    Licenses[CHOOSE i \in 1..Len(Licenses) : Licenses[i].key = r.args[1][1]].info

\* C10: generate_license of an identifier of the store, with an author where
\* one is required, fails with TemplateMalformed whenever the body of the
\* template holds a placeholder the substitution does not recognise.
C10_UnknownPlaceholderIsTemplateMalformed ==
    (/\ result.op = "generate_license"
     /\ Known(result)
     /\ ~(NeedsName(result) /\ AuthorMissing(result))
     /\ UnknownPlaceholder(TemplateOf(result).text))
    => ErrorKind(result) = "TemplateMalformed"

----------------------------------------------------------------------------
(* C11 *)

\* the author and the year of the call r of generate_license or of
\* generate_and_add_license
AuthorArg(r) == IF r.args[3] = <<"None">> THEN NoAuthor ELSE AuthorOf(r.args[2])
YearArg(r) == CHOOSE y \in Years : <<ToString(y)>> = r.args[4]

\* what generate_license makes of the arguments of call r
Generated(r) ==
    generate_license(Licenses, r.args[1][1], AuthorArg(r), YearArg(r))

AllSteps == <<"generate_license", "save_license_file", "add_files">>

\* C11: generate_and_add_license on an initialised facade runs generate,
\* persist, stage in that order and stops at the first failure.  When
\* generate_license fails, no LICENSE file changes, nothing is staged and
\* the tool is not run; when save_license_file fails, add_files is not
\* reached, nothing is staged and the tool is not run; add_files is reached
\* exactly when the text was generated and written whole, and only then can
\* the tool run or the index change.
C11_GenerateAddLicenseFailsFast ==
    [][(/\ result'.op = "generate_and_add_license"
        /\ git_manager # Unset
        /\ license_manager # Unset)
       => LET r == result'
              g == Generated(r)
              license_path == license_manager[1].repo_path
          IN  /\ r.steps \in {SubSeq(AllSteps, 1, n) : n \in 1..3}
              /\ g.exc # None =>
                    /\ r.steps = SubSeq(AllSteps, 1, 1)
                    /\ r.exc = g.exc
                    /\ license_file' = license_file
                    /\ index' = index
                    /\ r.calls = <<>>
              /\ g.exc = None => Len(r.steps) >= 2
              /\ ErrorKind(r) = "WriteFailed" =>
                    /\ r.steps = SubSeq(AllSteps, 1, 2)
                    /\ index' = index
                    /\ r.calls = <<>>
              /\ r.steps = AllSteps <=>
                    (g.exc = None /\ ErrorKind(r) # "WriteFailed")
              /\ r.steps = AllSteps =>
                    license_file'[license_path] = g.value
              /\ (index' # index \/ r.calls # <<>>) => r.steps = AllSteps
      ]_vars

\* save_license_file failed after generate_license had succeeded, over a
\* LICENSE file that an earlier call had written and staged
C11_Witness ==
    /\ result.op = "generate_and_add_license"
    /\ result.steps = SubSeq(AllSteps, 1, 2)
    /\ ErrorKind(result) = "WriteFailed"
    /\ result.calls = <<>>
    /\ "LICENSE" \in index[result.target]
    /\ license_file[result.target] # NoFile

----------------------------------------------------------------------------
(* C12 *)

\* every LICENSE file but the one in directory d is as it was, and so is
\* the rest of the disk
OnlyLicenseWritten(d) ==
    /\ \A e \in Repos \ {d} : license_file'[e] = license_file[e]
    /\ files' = files
    /\ dirs' = dirs
    /\ marker' = marker

\* C12: after save_license_file returns normally, LICENSE at the root of
\* the repository of the license manager reads back as exactly the text it
\* was given, whether the file was absent before or held any earlier text,
\* shorter or longer, and nothing else on disk has changed; the same holds
\* for the text generate_and_add_license generates once it has got past
\* save_license_file.
C12_PersistRoundTrip ==
    [][/\ (result'.op = "save_license_file" /\ result'.exc = None)
          => /\ license_file'[result'.target] = result'.args[1]
             /\ OnlyLicenseWritten(result'.target)
       /\ (result'.op = "generate_and_add_license" /\ result'.steps = AllSteps)
          => /\ license_file'[license_manager[1].repo_path]
                  = Generated(result').value
             /\ OnlyLicenseWritten(license_manager[1].repo_path)
      ]_vars

\* a one-chunk text was written over a LICENSE file that had been written
\* and staged before
C12_Witness ==
    /\ result.op = "save_license_file"
    /\ result.exc = None
    /\ Len(result.args[1]) = 1
    /\ license_file[result.target] = result.args[1]
    /\ "LICENSE" \in index[result.target]

----------------------------------------------------------------------------
(* C13 *)

\* C13: no exception of the OSError family escapes save_license_file.  A
\* call whose directory is missing, and every call after which LICENSE does
\* not hold the whole text (open was refused, or the write broke off), fails
\* with WriteFailed; a call fails in no other way.  The same holds for the
\* save_license_file step of generate_and_add_license.
C13_WriteErrorsAreWriteFailed ==
    [][/\ result'.op = "save_license_file"
          => LET r == result'
             IN  /\ r.exc \notin OSErrors
                 /\ r.target \notin dirs => ErrorKind(r) = "WriteFailed"
                 /\ license_file'[r.target] # r.args[1]
                       => ErrorKind(r) = "WriteFailed"
                 /\ r.exc # None => ErrorKind(r) = "WriteFailed"
       /\ (result'.op = "generate_and_add_license" /\ Len(result'.steps) = 2)
          => LET r == result'
             IN  /\ r.exc \notin OSErrors
                 /\ ErrorKind(r) = "WriteFailed"
      ]_vars

\* the device filled up after open had truncated LICENSE
C13_Witness ==
    /\ result.op = "save_license_file"
    /\ ErrorKind(result) = "WriteFailed"
    /\ result.msg[2] = "OSError"
    /\ license_file[result.target] = <<>>
    /\ result.args[1] # <<>>

----------------------------------------------------------------------------
(* C14 *)

\* the step constructs the two services and the tool answered the version
\* query, so that LicenseManager(repo_path) is reached
LicenseManagerConstructed ==
    /\ result'.op \in {"initialize_managers", "create_repository"}
    /\ result'.calls # <<>>
    /\ result'.calls[1].argv = VersionQuery
    /\ result'.calls[1].returncode = 0

\* C14: when licenses.json is absent and when it is present but does not
\* parse, constructing the license manager succeeds and its store is exactly
\* the six built-in licenses, in the order of the table, all of them
\* requiring a name.
C14_StoreFallsBackToDefaults ==
    [][(LicenseManagerConstructed /\ licenses_json.state \in {"absent", "invalid"})
       => /\ ErrorKind(result') # "StoreUnreadable"
          /\ license_manager' # Unset
          /\ license_manager'[1].repo_path = result'.target
          /\ get_available_licenses(license_manager'[1].licenses)
               = <<"MIT", "Apache-2.0", "BSD-2-Clause", "BSD-3-Clause",
                   "Apache-1.1", "BSD-4-Clause">>
          /\ \A i \in 1..Len(license_manager'[1].licenses) :
                license_manager'[1].licenses[i].info.requires_name
      ]_vars

BuiltinOrder ==
    <<"MIT", "Apache-2.0", "BSD-2-Clause", "BSD-3-Clause", "Apache-1.1",
      "BSD-4-Clause">>

\* C14, amended: the built-in set stands in for an absent licenses.json
\* only.  When the file is absent, constructing the license manager succeeds
\* and its store is exactly the six built-in licenses with their bodies, all
\* requiring a name; when the file is present but does not parse, the
\* construction fails with LicenseError and the facade keeps the license
\* manager it had.
C14_AbsentFallsBackInvalidRaises ==
    [][LicenseManagerConstructed
       => /\ licenses_json.state = "absent"
             => /\ ErrorKind(result') # "StoreUnreadable"
                /\ license_manager' # Unset
                /\ license_manager'[1].repo_path = result'.target
                /\ get_available_licenses(license_manager'[1].licenses)
                     = BuiltinOrder
                /\ \A i \in 1..Len(BuiltinOrder) :
                      /\ license_manager'[1].licenses[i].info.requires_name
                      /\ license_manager'[1].licenses[i].info.text
                           = BuiltinBody(BuiltinOrder[i])
          /\ licenses_json.state = "invalid"
             => /\ ErrorKind(result') = "StoreUnreadable"
                /\ result'.msg[1] = "Error decoding JSON from licenses.json: "
                /\ license_manager' = license_manager
      ]_vars

\* the construction of the license manager failed on a file that does not
\* parse, and the facade holds no license manager
C14_Witness ==
    /\ result.op = "initialize_managers"
    /\ ErrorKind(result) = "StoreUnreadable"
    /\ licenses_json.state = "invalid"
    /\ git_manager # Unset
    /\ license_manager = Unset

----------------------------------------------------------------------------
(* C15 *)

\* C15: the template store is loaded once.  Once the facade holds a license
\* manager, no step changes the store it holds, whatever happens to
\* licenses.json in between; get_available_licenses returns the identifiers
\* of that store, in its order.
C15_StoreLoadedOnce ==
    [][/\ (license_manager # Unset /\ license_manager' # Unset)
          => license_manager'[1].licenses = license_manager[1].licenses
       /\ result'.op = "get_available_licenses"
          => result'.value = <<get_available_licenses(license_manager[1].licenses)>>
      ]_vars

\* C15, amended: the store is loaded once for each license manager, and the
\* facade constructs a new license manager in every initialize_managers and
\* create_repository call.  The license manager the facade holds changes
\* only in a step that constructs one while licenses.json is absent or
\* parses, and the store is then the one licenses.json gives at that moment
\* (the built-in set if absent, its own identifiers otherwise); in every
\* other step the license manager and its store stay as they are, and
\* get_available_licenses returns the identifiers of that store.
C15_StoreLoadedPerConstruction ==
    [][/\ (LicenseManagerConstructed /\ licenses_json.state # "invalid")
          => /\ license_manager' # Unset
             /\ licenses_json.state = "absent"
                => get_available_licenses(license_manager'[1].licenses)
                     = BuiltinOrder
             /\ licenses_json.state = "valid"
                => get_available_licenses(license_manager'[1].licenses)
                     = [i \in 1..Len(CustomJson) |-> CustomJson[i].key]
       /\ ~(LicenseManagerConstructed /\ licenses_json.state # "invalid")
          => license_manager' = license_manager
       /\ result'.op = "get_available_licenses"
          => result'.value = <<get_available_licenses(license_manager[1].licenses)>>
      ]_vars

\* create_repository loaded the built-in store although LICENSE on disk was
\* generated and staged from a template of the store of licenses.json: the
\* facade has held two different stores
C15_Witness ==
    /\ result.op = "create_repository"
    /\ license_manager # Unset
    /\ get_available_licenses(license_manager[1].licenses) = BuiltinOrder
    /\ license_file[result.target] = <<"Public domain.">>
    /\ "LICENSE" \in index[result.target]

----------------------------------------------------------------------------
(* C16 *)

\* C16: the two services of the facade are both unset or both bound to the
\* same repository path.
C16_ManagersBoundTogether ==
    \/ git_manager = Unset /\ license_manager = Unset
    \/ /\ git_manager # Unset
       /\ license_manager # Unset
       /\ git_manager[1].repo_path = license_manager[1].repo_path

----------------------------------------------------------------------------
(* C17 *)

\* the operations that act through the services the facade holds
BoundOps ==
    {"is_repository", "commit", "generate_and_add_license",
     "get_available_licenses"}

\* C17: create_repository(p) binds both services to p before it runs
\* init_repo.  When it fails with AlreadyExists, p held the marker, the disk
\* is as it was, both services are bound to p and is_repository() is true.
\* The binding then stays until the next create_repository: every other
\* operation leaves the services alone, is recorded against the path of
\* the GitManager, changes the index of no other directory and the LICENSE
\* file of no directory but the license manager's, and is_repository answers
\* for the bound path.
C17_AlreadyExistsLeavesFacadeBound ==
    [][/\ \A p \in Repos :
             (CallOf("create_repository", p)
                /\ ErrorKind(result') = "AlreadyExists")
             => /\ p \in marker
                /\ dirs' = dirs /\ marker' = marker
                /\ git_manager' # Unset
                /\ git_manager'[1].repo_path = p
                /\ license_manager' # Unset
                /\ license_manager'[1].repo_path = p
                /\ (is_repository(p))'
       /\ (result'.op \in BoundOps /\ git_manager # Unset)
          => /\ git_manager' = git_manager
             /\ license_manager' = license_manager
             /\ result'.op # "get_available_licenses"
                => result'.target = git_manager[1].repo_path
             /\ \A d \in Repos \ {git_manager[1].repo_path} :
                   index'[d] = index[d]
             /\ \A d \in Repos :
                   license_file'[d] # license_file[d]
                   => /\ license_manager # Unset
                      /\ d = license_manager[1].repo_path
             /\ result'.op = "is_repository"
                => (result'.value = <<<<"True">>>>
                      <=> git_manager[1].repo_path \in marker)
      ]_vars

\* create_repository failed with AlreadyExists on r2 and left the facade
\* bound to r2, after a LICENSE had been staged in r1 through a facade bound
\* to r1
C17_Witness ==
    /\ result.op = "create_repository"
    /\ ErrorKind(result) = "AlreadyExists"
    /\ result.target = absolute(<<"r2">>)
    /\ git_manager # Unset
    /\ git_manager[1].repo_path = absolute(<<"r2">>)
    /\ license_manager # Unset
    /\ license_manager[1].repo_path = absolute(<<"r2">>)
    /\ "LICENSE" \in index[absolute(<<"r1">>)]
    /\ index[absolute(<<"r2">>)] = {}

====
